---------------------------- MODULE Spec2Model ----------------------------
(***************************************************************************)
(* Model of clone-notion.js: the crawl loop (frontier, visited map, slug   *)
(* allocation, anchor rewrite, concurrent image download, persist) and the *)
(* post-crawl link fix pass.                                               *)
(*                                                                         *)
(* Strings are sequences of symbols.  A slug or title symbol is a single   *)
(* character; a URL symbol is one piece of the URL text (origin, a path    *)
(* segment, "#", a fragment).                                              *)
(***************************************************************************)
EXTENDS Integers, Sequences, FiniteSets, TLC

(***************************************************************************)
(* Bounds of the model                                                     *)
(***************************************************************************)
\* The page cap.  The source sets 150 (clone-notion.js:48); the model runs
\* the same loop guard with a small cap so that the cap is reached.
MAX_PAGES == 2

\* Cap on the number of navigations (page.goto calls) of a modelled run.
MaxAttempts == 3

(***************************************************************************)
(* Generic sequence helpers                                                *)
(***************************************************************************)
Min(a, b) == IF a < b THEN a ELSE b

InSeq(s, x) == \E i \in 1..Len(s) : s[i] = x

Range(s) == {s[i] : i \in 1..Len(s)}

\* String.prototype.slice(0, n)
Slice(s, n) == SubSeq(s, 1, Min(Len(s), n))

(***************************************************************************)
(* URLs                                                                    *)
(***************************************************************************)
SiteOrigin  == "https://n.site"
OtherOrigin == "https://x.org"
\* An origin whose text differs from SiteOrigin only where SiteOrigin has '.'
LookalikeOrigin == "https://n-site"
Origins     == {SiteOrigin, OtherOrigin, LookalikeOrigin}

\* Path segments that carry a 32-hex page id, and one that does not
IdPaths    == {"/p1", "/p2", "/p3"}
PlainPaths == {"/about"}

\* Symbols no URL parser accepts as the start of a URL or of a relative
\* reference (new URL(...) throws)
BadRefs == {"http://["}

START_URL == <<SiteOrigin, "/p1">>

\* new URL(u).host
HostOf(u) ==
    CASE u[1] = SiteOrigin      -> "n.site"
      [] u[1] = LookalikeOrigin -> "n-site"
      [] OTHER                  -> "x.org"

\* new URL(u) succeeds for an absolute URL text
IsAbsolute(u) == Len(u) > 0 /\ u[1] \in Origins

\* new URL(ref, base) succeeds
CanResolve(ref) == Len(ref) > 0 /\ ref[1] \notin BadRefs

\* Position of the first "#" symbol of u, or Len(u)+1
RECURSIVE HashPos(_, _)
HashPos(u, i) ==
    IF i > Len(u) THEN i
    ELSE IF u[i] = "#" THEN i
    ELSE HashPos(u, i + 1)

\* x.hash = ''; x.toString()
DropHash(u) == SubSeq(u, 1, HashPos(u, 1) - 1)

\* new URL(ref, base).toString(): an absolute reference stands for itself,
\* a path-absolute reference takes the base's origin, a fragment-only
\* reference takes the base without its fragment.
ResolveUrl(ref, base) ==
    IF ref[1] \in Origins THEN ref
    ELSE IF ref[1] = "#" THEN DropHash(base) \o ref
    ELSE <<base[1]>> \o ref

\* Faulty variant of normalizeUrl: the fragment kept
normalizeUrl_KeepHash(u) == u

\* Lines 199-205: the URL without its fragment; the text itself when it
\* does not parse
normalizeUrl(u) ==
    IF IsAbsolute(u) THEN DropHash(u) ELSE u

isNotionPage(u) ==
    IF IsAbsolute(u)
    THEN \E i \in 2..(HashPos(u, 1) - 1) : u[i] \in IdPaths
    ELSE FALSE

(***************************************************************************)
(* Titles, slugs and page filenames                                        *)
(***************************************************************************)
\* The literal 'page'
PageWord == <<"p", "a", "g", "e">>

\* The literal '.html'
HtmlExt == <<".", "h", "t", "m", "l">>

\* The text that line 106 strips from the end of a title (a space, an en
\* dash, a space, 'Notion'); one symbol stands for the whole suffix.
NotionSuffix == " - Notion"

\* Characters slugify's strict mode keeps ([A-Za-z0-9]); everything else is
\* removed.
AlnumChars == {"H", "h", "p", "a", "g", "e", "t", "m", "l", "2", "3", "4"}

LowerOf(c) == IF c = "H" THEN "h" ELSE c

\* slugify(s, { lower: true, strict: true }) on a text without whitespace
RECURSIVE slugify(_)
slugify(s) ==
    IF s = <<>> THEN <<>>
    ELSE IF Head(s) \in AlnumChars
         THEN <<LowerOf(Head(s))>> \o slugify(Tail(s))
         ELSE slugify(Tail(s))

\* Lines 105-106: the page's title from the text of its <title> element
PageTitle(raw) ==
    LET t1 == IF raw = <<>> THEN PageWord ELSE raw
        t2 == IF t1[Len(t1)] = NotionSuffix
              THEN SubSeq(t1, 1, Len(t1) - 1) ELSE t1
    IN  IF t2 = <<>> THEN PageWord ELSE t2

\* The decimal text of a small number (`${i}`)
Digits == <<"0", "1", "2", "3", "4", "5", "6", "7", "8", "9">>
NumText(i) == <<Digits[i + 1]>>

\* filename.replace(/\\.html$/, ''): the pattern as written in the source
\* is a backslash, any one character, then 'html' at the end of the text.
StripHtmlSuffix(f) ==
    LET n == Len(f)
    IN  IF /\ n >= 6
           /\ f[n - 5] = "\\"
           /\ SubSeq(f, n - 3, n) = <<"h", "t", "m", "l">>
        THEN SubSeq(f, 1, n - 6)
        ELSE f

\* The while loop of uniqueSlug (line 221)
RECURSIVE ProbeSlug(_, _, _, _)
ProbeSlug(base, used, slug, i) ==
    IF slug \in used
    THEN ProbeSlug(base, used, base \o <<"-">> \o NumText(i), i + 1)
    ELSE slug

\* Lines 216-217: the base slug of a title
BaseSlug(title) ==
    LET s == slugify(title)
    IN  Slice(IF s = <<>> THEN PageWord ELSE s, 60)

\* Line 220: the slugs uniqueSlug takes as used
UsedSlugs(map) == {StripHtmlSuffix(map[k].filename) : k \in 1..Len(map)}

\* uniqueSlug(title, map); map is the visited map, a sequence of entries
uniqueSlug(title, map) ==
    ProbeSlug(BaseSlug(title), UsedSlugs(map), BaseSlug(title), 2)

\* Line 109
FilenameOf(slug) == slug \o HtmlExt

\* Lines 130-131: the provisional filename guessed from the anchor's text
GuessFilename(text) ==
    LET t == IF text = <<>> THEN PageWord ELSE text
        s == Slice(slugify(t), 60)
        g == IF s = <<>> THEN PageWord ELSE s
    IN  (IF g = <<>> THEN PageWord ELSE g) \o HtmlExt

(***************************************************************************)
(* Asset filenames                                                         *)
(***************************************************************************)
ImgExts == {"png", "jpg", "jpeg", "gif", "svg", "webp"}

\* Position of the first "?" or "#" symbol of u, or Len(u)+1
RECURSIVE QueryOrHashPos(_, _)
QueryOrHashPos(u, i) ==
    IF i > Len(u) THEN i
    ELSE IF u[i] \in {"?", "#"} THEN i
    ELSE QueryOrHashPos(u, i + 1)

\* Buffer.from(u).toString('base64').replace(/[^a-z0-9]/gi,'').slice(0,24):
\* 24 base64 characters encode the first 18 bytes of u.  In the model's
\* alphabet an origin and the first path segment of an asset URL are 18
\* bytes together, so the id is the encoding of the first two symbols.
Base64Id(u) == <<"b64:">> \o SubSeq(u, 1, Min(Len(u), 2))

\* The extension: the pattern as written in the source is a backslash, any
\* one character, an image extension, at the end of the text before the
\* first '?' or '#'; '.bin' when it does not match.
AssetExt(u) ==
    LET p == SubSeq(u, 1, QueryOrHashPos(u, 1) - 1)
        n == Len(p)
    IN  IF n >= 3 /\ p[n - 2] = "\\" /\ p[n] \in ImgExts
        THEN SubSeq(p, n - 2, n)
        ELSE <<".bin">>

assetFilename(u) == Base64Id(u) \o AssetExt(u)

\* `assets/${assetName}`
AssetRef(name) == <<"assets/">> \o name

(***************************************************************************)
(* The visited map (a JavaScript Map: insertion-ordered, one entry per key)*)
(***************************************************************************)
VisitedHas(map, u) == \E k \in 1..Len(map) : map[k].url = u

VisitedGet(map, u) == map[CHOOSE k \in 1..Len(map) : map[k].url = u]

\* visited.set(url, { title, filename })
VisitedSet(map, u, title, filename) ==
    LET e == [url |-> u, title |-> title, filename |-> filename]
    IN  IF VisitedHas(map, u)
        THEN [k \in 1..Len(map) |-> IF map[k].url = u THEN e ELSE map[k]]
        ELSE Append(map, e)

(***************************************************************************)
(* Crawl loop: guard, dequeue check, anchor rewrite                        *)
(***************************************************************************)
\* Line 56: host = new URL(START_URL).host
host == HostOf(START_URL)

\* Faulty variant of LoopCond: the cap compared with <= instead of <
LoopCond_OffByOne(q, map) == Len(q) > 0 /\ Len(map) <= MAX_PAGES

\* Line 70: the while condition
LoopCond(q, map) == Len(q) > 0 /\ Len(map) < MAX_PAGES

\* Faulty variant of AlreadyVisited: the dequeue check dropped
AlreadyVisited_Never(map, u) == FALSE

\* Line 72: if (visited.has(url)) continue
AlreadyVisited(map, u) == VisitedHas(map, u)

\* Faulty variant of ShouldEnqueue: the push guarded by the queue alone
ShouldEnqueue_QueueOnly(map, q, nh) == ~InSeq(q, nh)

\* Line 134: the condition under which the link target is pushed
ShouldEnqueue(map, q, nh) == ~VisitedHas(map, nh) /\ ~InSeq(q, nh)

\* Faulty variant of RecordSkip: a skipped URL entered in the visited map
RecordSkip_AsVisited(map, u) == VisitedSet(map, u, <<>>, <<>>)

\* Lines 79-83 and 174-176: the skip paths warn and go on; the visited map
\* is left as it is
RecordSkip(map, u) == map

\* Lines 128-132: the local file an in-scope link is mapped to
MappedFilename(map, nh, text) ==
    IF VisitedHas(map, nh) /\ VisitedGet(map, nh).filename # <<>>
    THEN VisitedGet(map, nh).filename
    ELSE GuessFilename(text)

\* Faulty variant of InScope: the host comparison dropped
InScope_AnyHost(abs) == isNotionPage(abs)

\* Lines 125-126: sameHost && isNotionPage(abs)
InScope(abs) == HostOf(abs) = host /\ isNotionPage(abs)

\* Faulty variant of Enqueue: the URL put at the front of the frontier
Enqueue_Front(q, nh) == <<nh>> \o q

\* Line 134: queue.push(nh)
Enqueue(q, nh) == Append(q, nh)

\* Lines 120-140, one anchor.  st = [anchors, queue, pushed]: the anchors
\* done so far, the frontier, and the URLs pushed so far.  The anchor's
\* record in the DOM is [href, blank, nh, orig]: blank is target=_blank; nh
\* remembers the normalized URL of an in-scope link and orig the href as the
\* renderer returned it (neither is part of the markup).
RewriteAnchor(st, a, base, map) ==
    IF a.href = <<>> \/ ~CanResolve(a.href)
    THEN [st EXCEPT !.anchors = Append(@,
                        [href |-> a.href, blank |-> FALSE, nh |-> <<>>,
                         orig |-> a.href])]
    ELSE LET abs == ResolveUrl(a.href, base)
             nh  == normalizeUrl(abs)
         IN  IF InScope(abs)
             THEN [anchors |-> Append(st.anchors,
                        [href  |-> MappedFilename(map, nh, a.text),
                         blank |-> FALSE, nh |-> nh, orig |-> a.href]),
                   queue   |-> IF ShouldEnqueue(map, st.queue, nh)
                               THEN Enqueue(st.queue, nh) ELSE st.queue,
                   pushed  |-> IF ShouldEnqueue(map, st.queue, nh)
                               THEN Append(st.pushed, nh) ELSE st.pushed]
             ELSE [st EXCEPT !.anchors = Append(@,
                        [href |-> a.href, blank |-> TRUE, nh |-> <<>>,
                         orig |-> a.href])]

\* Lines 119-141: root.querySelectorAll('a').forEach(...)
RECURSIVE RewriteAnchors(_, _, _, _)
RewriteAnchors(st, as, base, map) ==
    IF as = <<>> THEN st
    ELSE RewriteAnchors(RewriteAnchor(st, Head(as), base, map),
                        Tail(as), base, map)

(***************************************************************************)
(* Images                                                                  *)
(***************************************************************************)
\* Lines 112-114: the Set of the non-empty src attributes, in DOM order
RECURSIVE ImageSet(_, _)
ImageSet(srcs, seen) ==
    IF srcs = <<>> THEN seen
    ELSE IF Head(srcs) = <<>> \/ InSeq(seen, Head(srcs))
         THEN ImageSet(Tail(srcs), seen)
         ELSE ImageSet(Tail(srcs), Append(seen, Head(srcs)))

\* Faulty variant of FileExists: the existence check always negative
FileExists_Never(files, name) == FALSE

\* Line 153: fs.existsSync(outPath)
FileExists(files, name) == name \in DOMAIN files

\* Lines 149-157 up to the await: does the task for src start a download
StartsDownload(files, src, base) ==
    /\ CanResolve(src)
    /\ ~FileExists(files, assetFilename(ResolveUrl(src, base)))

\* ... or find the file present and go on to the rewrite at once
FindsFile(files, src, base) ==
    /\ CanResolve(src)
    /\ FileExists(files, assetFilename(ResolveUrl(src, base)))

\* Lines 159-161: every img whose src attribute is src now points to the
\* asset.  An img record is [src, abs, orig]: orig remembers the src as the
\* renderer returned it and abs the absolute URL it resolved to (neither is
\* part of the markup).
RewriteImgs(imgs, src, base) ==
    [i \in 1..Len(imgs) |->
        IF imgs[i].src = src
        THEN [imgs[i] EXCEPT
                !.src = AssetRef(assetFilename(ResolveUrl(src, base)))]
        ELSE imgs[i]]

\* Faulty variant of ImgsAfterFailure: the rewrite done outside the try
ImgsAfterFailure_Rewritten(imgs, src, base) == RewriteImgs(imgs, src, base)

\* Lines 162-164: the catch of a task only warns; the DOM is left alone
ImgsAfterFailure(imgs, src, base) == imgs

RECURSIVE RewriteFound(_, _, _, _)
RewriteFound(imgs, set, files, base) ==
    IF set = <<>> THEN imgs
    ELSE RewriteFound(
            IF FindsFile(files, Head(set), base)
            THEN RewriteImgs(imgs, Head(set), base) ELSE imgs,
            Tail(set), files, base)

\* The img elements as parsed, before any rewrite
ParsedImgs(srcs, base) ==
    [i \in 1..Len(srcs) |->
        [src |-> srcs[i], orig |-> srcs[i],
         abs |-> IF srcs[i] # <<>> /\ CanResolve(srcs[i])
                 THEN ResolveUrl(srcs[i], base) ELSE <<>>]]

\* The absolute URLs of the downloads the tasks start, in task order
RECURSIVE StartedDownloads(_, _, _)
StartedDownloads(set, files, base) ==
    IF set = <<>> THEN <<>>
    ELSE (IF StartsDownload(files, Head(set), base)
          THEN <<ResolveUrl(Head(set), base)>> ELSE <<>>)
         \o StartedDownloads(Tail(set), files, base)

(***************************************************************************)
(* The link fix pass: regular-expression substitution over saved markup    *)
(***************************************************************************)
\* The characters in the class of escapeRegExp's pattern
RegexSpecials ==
    {".", "*", "+", "?", "^", "$", "{", "}", "(", ")", "|", "[", "\\"}

\* escapeRegExp(s): the pattern as written in the source matches one
\* character of the class followed by two backslashes and ']', and the
\* replacement puts two backslashes before the match.
RECURSIVE escapeRegExp(_)
escapeRegExp(s) ==
    IF s = <<>> THEN <<>>
    ELSE IF /\ Len(s) >= 4
            /\ s[1] \in RegexSpecials
            /\ SubSeq(s, 2, 4) = <<"\\", "\\", "]">>
         THEN <<"\\", "\\">> \o SubSeq(s, 1, 4) \o escapeRegExp(SubSeq(s, 5, Len(s)))
         ELSE <<Head(s)>> \o escapeRegExp(Tail(s))

\* new RegExp(p, 'g') throws on an unbalanced group or class
RegexCompiles(p) == \A i \in 1..Len(p) : p[i] \notin {"(", ")", "[", "*", "+"}

\* The symbols a pattern symbol matches: '.' in the pattern matches any
\* character, so the site's origin also matches its lookalike.
SymLanguage(ps) ==
    IF ps = SiteOrigin THEN {SiteOrigin, LookalikeOrigin} ELSE {ps}

\* A symbol without its last character ("" when nothing is left): what the
\* quantifier '?' leaves when it drops the character before it.
Chopped(ps) ==
    CASE ps = "/p1" -> "/p"
      [] ps = "/p2" -> "/p"
      [] ps = "/p3" -> "/p"
      [] OTHER      -> ""

\* End (exclusive) of the match of p[j..] at t[i..], 0 when there is none
RECURSIVE MatchEnd(_, _, _, _)
MatchEnd(t, i, p, j) ==
    IF j > Len(p) THEN i
    ELSE IF j < Len(p) /\ p[j + 1] = "?"
    THEN LET full == IF i <= Len(t) /\ t[i] \in SymLanguage(p[j])
                     THEN MatchEnd(t, i + 1, p, j + 2) ELSE 0
             chop == IF Chopped(p[j]) = ""
                     THEN MatchEnd(t, i, p, j + 2)
                     ELSE IF i <= Len(t) /\ t[i] = Chopped(p[j])
                          THEN MatchEnd(t, i + 1, p, j + 2) ELSE 0
         IN  IF full # 0 THEN full ELSE chop
    ELSE IF i <= Len(t) /\ t[i] \in SymLanguage(p[j])
         THEN MatchEnd(t, i + 1, p, j + 1)
         ELSE 0

\* html.replace(new RegExp(p, 'g'), rep) on one piece of text
RECURSIVE ReplaceAll(_, _, _, _)
ReplaceAll(t, i, p, rep) ==
    IF i > Len(t) THEN <<>>
    ELSE LET e == MatchEnd(t, i, p, 1)
         IN  IF e > i
             THEN rep \o ReplaceAll(t, e, p, rep)
             ELSE <<t[i]>> \o ReplaceAll(t, i + 1, p, rep)

\* Lines 189-190 on a saved page.  The texts of the markup that can hold a
\* URL are the href and src attribute values and the other texts of the
\* page (meta: canonical link, embedded metadata).
ReplaceInPage(m, u2, f2) ==
    IF RegexCompiles(escapeRegExp(u2))
    THEN [anchors |-> [i \in 1..Len(m.anchors) |->
                        [m.anchors[i] EXCEPT
                           !.href = ReplaceAll(@, 1, escapeRegExp(u2), f2)]],
          imgs    |-> [i \in 1..Len(m.imgs) |->
                        [m.imgs[i] EXCEPT
                           !.src = ReplaceAll(@, 1, escapeRegExp(u2), f2)]],
          meta    |-> [i \in 1..Len(m.meta) |->
                        ReplaceAll(m.meta[i], 1, escapeRegExp(u2), f2)]]
    ELSE m

\* Lines 187-192: the inner loop over the visited map
RECURSIVE FixPage(_, _, _)
FixPage(m, map, k) ==
    IF k > Len(map) THEN m
    ELSE FixPage(ReplaceInPage(m, map[k].url, map[k].filename), map, k + 1)

\* Lines 184-194: the outer loop over the entries of map; each entry's file
\* is read, fixed with the substitutions of subs in their order, written
RECURSIVE FixFilesBy(_, _, _, _)
FixFilesBy(files, map, subs, k) ==
    IF k > Len(map) THEN files
    ELSE FixFilesBy([files EXCEPT ![map[k].filename] = FixPage(@, subs, 1)],
                    map, subs, k + 1)

\* Lines 183-194: both loops run over the visited map
FixFiles(files, map, k) == FixFilesBy(files, map, map, k)

(***************************************************************************)
(* What the renderer can return: the rendered pages of the modelled site   *)
(***************************************************************************)
P1 == START_URL
P2 == <<SiteOrigin, "/p2">>
P3 == <<SiteOrigin, "/p3">>

\* Raw <title> texts: 'H - Notion' and 'h' give the same slug, '!' gives
\* the default slug
RawTitles == {<<"H", NotionSuffix>>, <<"h">>, <<"!">>}

LinkText == <<"h">>

\* href attributes of links to the site's pages
CoreHrefs == {P1, P2, P3}

\* Other href attributes: a fragment link, a relative link, another host, a
\* relative link to a path without page id, an unparsable reference, an
\* empty attribute
EdgeHrefs ==
    { P2 \o <<"#", "s">>, <<"/p3">>, <<OtherOrigin, "/p2">>,
      <<"/about">>, <<"http://[">>, <<>> }

\* The page P1 addressed with a query string
P1q == P1 \o <<"?", "v">>

\* A URL of the lookalike host whose path is P1's followed by 'v'
LookalikeP1v == <<LookalikeOrigin, "/p1", "v">>

Anchor(h) == [href |-> h, text |-> LinkText]

\* Link lists of the pages whose title varies
MainAnchorLists == { <<Anchor(P2)>>, <<Anchor(P2), Anchor(P3)>> }

\* Further link lists: no link, a link to the seed (a self link on the seed),
\* a link to a third page, two links the other way round
MoreAnchorLists ==
    { <<>>, <<Anchor(P1)>>, <<Anchor(P3)>>, <<Anchor(P3), Anchor(P2)>> }

\* src attributes: IA and IArel resolve to the same absolute URL, IB is a
\* different URL with the same first 18 bytes, IC is on another origin
IA    == <<SiteOrigin, "/img", "/a", ".", "png">>
IArel == <<"/img", "/a", ".", "png">>
IB    == <<SiteOrigin, "/img", "/b", ".", "png">>
IC    == <<OtherOrigin, "/pics", "/c", ".", "png">>
IBad  == <<"http://[">>

ImgLists ==
    { <<IA>>, <<IC>>, <<IA, IA>>, <<IA, IArel>>, <<IA, IB>>, <<IA, IC>>,
      <<IBad, IA>>, <<<<>>, IA>> }

\* A page that links to P1 with a query string and to the lookalike host,
\* and repeats the first link's URL in its metadata
QuerySnapshots ==
    { [title |-> <<"!">>, anchors |-> <<Anchor(P1q), Anchor(LookalikeP1v)>>,
       imgs |-> <<>>, meta |-> <<P1q>>] }

Snapshots ==
    {[title |-> t, anchors |-> as, imgs |-> <<>>,
          meta |-> <<>>] :
        t \in RawTitles, as \in MainAnchorLists}
    \cup {[title |-> <<"h">>, anchors |-> as, imgs |-> <<>>,
          meta |-> <<>>] :
        as \in MoreAnchorLists}
    \cup {[title |-> <<"h">>, anchors |-> <<Anchor(h)>>, imgs |-> <<>>,
          meta |-> <<>>] :
        h \in EdgeHrefs}
    \cup {[title |-> <<"h">>, anchors |-> <<Anchor(P2)>>, imgs |-> is,
          meta |-> <<>>] :
        is \in ImgLists}
    \cup QuerySnapshots

(***************************************************************************)
(* State                                                                   *)
(***************************************************************************)
VARIABLES
    visited,     \* the visited map: sequence of [url, title, filename]
    queue,       \* the frontier
    pc,          \* "loop", "images" (awaiting Promise.all), "done"
    cur,         \* the page being processed: [url, title, filename, anchors,
                 \* imgs, meta], with failed (src strings whose task
                 \* failed) and before (frontier and assets when the
                 \* iteration began) kept for the properties
    pending,     \* src strings whose download task awaits axios.get
    assets,      \* site/assets: asset filename -> absolute URL of its bytes
    site,        \* site: page filename -> saved markup [anchors, imgs, meta]
    navLog,      \* URLs passed to page.goto, in order
    persistLog,  \* URLs whose page was written and recorded, in order
    skipped,     \* URLs whose processing ended skipped
    lateSkipped, \* ... of these, URLs skipped after their links were processed
    enqLog,      \* URLs put on the frontier, in order
    dlLog,       \* absolute URLs passed to axios.get, in order
    writeLog     \* asset filenames written, in order

vars == <<visited, queue, pc, cur, pending, assets, site,
          navLog, persistLog, skipped, lateSkipped, enqLog, dlLog, writeLog>>

NoPage == [url |-> <<>>, title |-> <<>>, filename |-> <<>>,
           anchors |-> <<>>, imgs |-> <<>>, meta |-> <<>>,
           failed |-> {}, before |-> [queue |-> <<>>, assets |-> <<>>]]

Count(log, x) == Cardinality({i \in 1..Len(log) : log[i] = x})

Init ==
    /\ visited = <<>>
    /\ queue = <<normalizeUrl(START_URL)>>
    /\ pc = "loop"
    /\ cur = NoPage
    /\ pending = {}
    /\ assets = <<>>
    /\ site = <<>>
    /\ navLog = <<>>
    /\ persistLog = <<>>
    /\ skipped = {}
    /\ lateSkipped = {}
    /\ enqLog = queue
    /\ dlLog = <<>>
    /\ writeLog = <<>>

(***************************************************************************)
(* Actions                                                                 *)
(***************************************************************************)
\* Lines 70-72: the dequeued URL is already in the visited map
SkipVisited ==
    /\ pc = "loop"
    /\ LoopCond(queue, visited)
    /\ AlreadyVisited(visited, Head(queue))
    /\ queue' = Tail(queue)
    /\ UNCHANGED <<visited, pc, cur, pending, assets, site, navLog,
                   persistLog, skipped, lateSkipped, enqLog, dlLog, writeLog>>

\* Lines 70-83 and 174-178: navigation gives no response or a non-success
\* status, or goto / evaluate / content throws
NavFail ==
    /\ pc = "loop"
    /\ LoopCond(queue, visited)
    /\ ~AlreadyVisited(visited, Head(queue))
    /\ Len(navLog) < MaxAttempts
    /\ queue' = Tail(queue)
    /\ navLog' = Append(navLog, Head(queue))
    /\ skipped' = skipped \cup {Head(queue)}
    /\ visited' = RecordSkip(visited, Head(queue))
    /\ UNCHANGED <<pc, cur, pending, assets, site,
                   persistLog, lateSkipped, enqLog, dlLog, writeLog>>

\* Lines 70-166 up to the await of Promise.all: navigation succeeds with
\* snapshot s; title, filename, anchor rewrite and enqueue; every image
\* task runs to its first await.
StartPage(s) ==
    /\ pc = "loop"
    /\ LoopCond(queue, visited)
    /\ ~AlreadyVisited(visited, Head(queue))
    /\ Len(navLog) < MaxAttempts
    /\ LET url    == Head(queue)
           title  == PageTitle(s.title)
           images == ImageSet(s.imgs, <<>>)
           rw     == RewriteAnchors([anchors |-> <<>>, queue |-> Tail(queue),
                                     pushed |-> <<>>],
                                    s.anchors, url, visited)
       IN  /\ queue' = rw.queue
           /\ enqLog' = enqLog \o rw.pushed
           /\ navLog' = Append(navLog, url)
           /\ cur' = [url      |-> url,
                      title    |-> title,
                      filename |-> FilenameOf(uniqueSlug(title, visited)),
                      anchors  |-> rw.anchors,
                      imgs     |-> RewriteFound(ParsedImgs(s.imgs, url),
                                                images, assets, url),
                      meta     |-> s.meta,
                      failed   |-> {},
                      before   |-> [queue |-> queue, assets |-> assets]]
           /\ pending' = {src \in Range(images) : StartsDownload(assets, src, url)}
           /\ dlLog' = dlLog \o StartedDownloads(images, assets, url)
    /\ pc' = "images"
    /\ UNCHANGED <<visited, assets, site, persistLog, skipped, lateSkipped,
                   writeLog>>

\* Lines 154-161: axios.get of one task resolves; the file is written and
\* the img elements with this src are rewritten
DownloadOk(src) ==
    /\ pc = "images"
    /\ src \in pending
    /\ LET abs  == ResolveUrl(src, cur.url)
           name == assetFilename(abs)
       IN  /\ assets' = (name :> abs) @@ assets
           /\ writeLog' = Append(writeLog, name)
    /\ cur' = [cur EXCEPT !.imgs = RewriteImgs(@, src, cur.url)]
    /\ pending' = pending \ {src}
    /\ UNCHANGED <<visited, queue, pc, site, navLog, persistLog, skipped,
                   lateSkipped, enqLog, dlLog>>

\* Lines 162-164: axios.get rejects (timeout, non-2xx, network error)
DownloadFail(src) ==
    /\ pc = "images"
    /\ src \in pending
    /\ cur' = [cur EXCEPT !.imgs = ImgsAfterFailure(@, src, cur.url),
                          !.failed = @ \cup {src}]
    /\ pending' = pending \ {src}
    /\ UNCHANGED <<visited, queue, pc, assets, site, navLog, persistLog,
                   skipped, lateSkipped, enqLog, dlLog, writeLog>>

\* Lines 168-173: Promise.all has resolved; the page is written and recorded
Persist ==
    /\ pc = "images"
    /\ pending = {}
    /\ site' = (cur.filename :> [anchors |-> cur.anchors, imgs |-> cur.imgs,
                                 meta |-> cur.meta])
               @@ site
    /\ visited' = VisitedSet(visited, cur.url, cur.title, cur.filename)
    /\ persistLog' = Append(persistLog, cur.url)
    /\ cur' = NoPage
    /\ pc' = "loop"
    /\ UNCHANGED <<queue, pending, assets, navLog, skipped, lateSkipped,
                   enqLog, dlLog, writeLog>>

\* Lines 174-178: injectMinimalBundle, root.toString or writeFileSync of the
\* page throws after the links were processed; the page ends skipped
PersistFail ==
    /\ pc = "images"
    /\ pending = {}
    /\ skipped' = skipped \cup {cur.url}
    /\ lateSkipped' = lateSkipped \cup {cur.url}
    /\ visited' = RecordSkip(visited, cur.url)
    /\ cur' = NoPage
    /\ pc' = "loop"
    /\ UNCHANGED <<queue, pending, assets, site,
                   navLog, persistLog, enqLog, dlLog, writeLog>>

\* Lines 181-196: the loop has exited; the link fix pass runs
FixPass ==
    /\ pc = "loop"
    /\ ~LoopCond(queue, visited)
    /\ site' = FixFiles(site, visited, 1)
    /\ pc' = "done"
    /\ UNCHANGED <<visited, queue, cur, pending, assets, navLog,
                   persistLog, skipped, lateSkipped, enqLog, dlLog, writeLog>>

Next ==
    \/ SkipVisited
    \/ NavFail
    \/ \E s \in Snapshots : StartPage(s)
    \/ \E src \in pending : DownloadOk(src)
    \/ \E src \in pending : DownloadFail(src)
    \/ Persist
    \/ PersistFail
    \/ FixPass

Spec == Init /\ [][Next]_vars

(***************************************************************************)
(* Properties                                                              *)
(***************************************************************************)
\* Number of downloads started / of writes done for an asset filename
DownloadsOf(name) ==
    Cardinality({i \in 1..Len(dlLog) : assetFilename(dlLog[i]) = name})
WritesOf(name) == Count(writeLog, name)

\* The step is a navigation (page.goto was called)
Navigates == Len(navLog') > Len(navLog)

\* C1: no two entries of the visited map have the same filename.
C1_UniqueFilenames ==
    \A i, j \in 1..Len(visited) :
        i # j => visited[i].filename # visited[j].filename

\* C2: the k-th persisted page among those whose titles give the same base
\* slug has the filename base.html (k = 1) or base-k.html (k > 1).
C2_SuffixPattern ==
    \A k \in 1..Len(visited) :
        LET base == BaseSlug(visited[k].title)
            n    == Cardinality({j \in 1..k :
                                   BaseSlug(visited[j].title) = base})
        IN  visited[k].filename =
                FilenameOf(IF n = 1 THEN base
                           ELSE base \o <<"-">> \o NumText(n))

\* C3: a URL whose page ended skipped is never navigated to again.
C3_NoRetry ==
    [][\A u \in skipped : Count(navLog', u) = Count(navLog, u)]_vars

\* C4 (as claimed): the frontier contains no URL that is a key of the
\* visited map.
C4_FrontierDisjointVisited ==
    \A i \in 1..Len(queue) : ~VisitedHas(visited, queue[i])

\* C4 (amended): the frontier never holds a URL twice, and a URL that is a
\* key of the visited map is never added to the frontier.
C4_NoVisitedEnqueued ==
    /\ [](\A i, j \in 1..Len(queue) : i # j => queue[i] # queue[j])
    /\ [][Navigates =>
            \A i \in Len(queue)..Len(queue') :
                ~VisitedHas(visited, queue'[i])]_vars

\* C4 witness: a page has been recorded while the frontier holds its URL
C4_Witness ==
    /\ pc = "loop"
    /\ Len(persistLog) >= 1
    /\ \E i \in 1..Len(queue) : VisitedHas(visited, queue[i])

\* C5: a page is persisted and recorded at most once per URL, and a URL in
\* the visited map is never navigated to again.
C5_ExactlyOnce ==
    /\ [](/\ \A u \in Range(persistLog) : Count(persistLog, u) <= 1
          /\ \A i, j \in 1..Len(visited) :
                i # j => visited[i].url # visited[j].url)
    /\ [][\A u \in Range(navLog') :
            VisitedHas(visited, u) => Count(navLog', u) = Count(navLog, u)]_vars

\* C5 witness: the run has ended; a recorded page linked to itself, so its
\* URL was dequeued again, and it was navigated to once.
C5_Witness ==
    /\ pc = "done"
    /\ queue = <<>>
    /\ \E k \in 1..Len(visited) :
        /\ Count(navLog, visited[k].url) = 1
        /\ Count(persistLog, visited[k].url) = 1
        /\ \E i \in 1..Len(site[visited[k].filename].anchors) :
              site[visited[k].filename].anchors[i].nh = visited[k].url

\* C6: the number of navigation attempts never exceeds the page cap.
C6_AttemptsWithinCap == Len(navLog) <= MAX_PAGES

\* C7: the visited map never holds more than MAX_PAGES entries, and once it
\* holds MAX_PAGES no URL is dequeued, navigated to or persisted.
C7_VisitedWithinCap ==
    /\ [](Len(visited) <= MAX_PAGES)
    /\ [][Len(visited) >= MAX_PAGES =>
            /\ queue' = queue
            /\ navLog' = navLog
            /\ persistLog' = persistLog
            /\ visited' = visited]_vars

\* C7 witness: the run ended at the cap with an unvisited URL still queued
C7_Witness ==
    /\ pc = "done"
    /\ Len(visited) = MAX_PAGES
    /\ \E i \in 1..Len(queue) : ~VisitedHas(visited, queue[i])

\* C8: after the fix pass every anchor of a saved page that pointed to an
\* in-scope URL whose page was persisted has that page's filename as href
\* (stated for the runs in which no two pages share a filename, so that
\* every saved file is the page of one URL).
C8_LinksPointToRealFile ==
    (pc = "done" /\ \A i, j \in 1..Len(visited) :
                        i # j => visited[i].filename # visited[j].filename) =>
        \A f \in DOMAIN site :
            \A i \in 1..Len(site[f].anchors) :
                LET a == site[f].anchors[i]
                IN  (a.nh # <<>> /\ VisitedHas(visited, a.nh))
                        => a.href = VisitedGet(visited, a.nh).filename

\* C9: for every asset filename at most one download is started and at most
\* one file write happens.
C9_OneDownloadOneWrite ==
    \A i \in 1..Len(dlLog) :
        /\ DownloadsOf(assetFilename(dlLog[i])) <= 1
        /\ WritesOf(assetFilename(dlLog[i])) <= 1

\* C10: once the file of an asset is stored, a later request for the same
\* URL starts no download and is rewritten to the same asset filename; one
\* page starts at most one download per src string.
C10_NoRefetchOnceStored ==
    [][Navigates =>
        /\ \A i \in (Len(dlLog) + 1)..Len(dlLog') :
              assetFilename(dlLog'[i]) \notin DOMAIN assets
        /\ \A i \in 1..Len(cur'.imgs) :
              LET img == cur'.imgs[i]
              IN  (img.abs # <<>> /\ assetFilename(img.abs) \in DOMAIN assets)
                    => img.src = AssetRef(assetFilename(img.abs))
        /\ Len(dlLog') - Len(dlLog) = Cardinality(pending')]_vars

\* C10 witness: a second page refers to an asset that an earlier page
\* downloaded; it is rewritten to the same name and was downloaded once.
C10_Witness ==
    /\ pc = "images"
    /\ pending = {}
    /\ \E i \in 1..Len(cur.imgs) :
        LET img == cur.imgs[i]
        IN  /\ img.abs # <<>>
            /\ img.src = AssetRef(assetFilename(img.abs))
            /\ Count(dlLog, img.abs) = 1
            /\ DownloadsOf(assetFilename(img.abs)) = 1
            /\ \E f \in DOMAIN site :
                 \E j \in 1..Len(site[f].imgs) :
                    /\ site[f].imgs[j].abs = img.abs
                    /\ site[f].imgs[j].src = img.src

\* The img elements of the page in progress and of the saved pages
AllImgs ==
    Range(cur.imgs) \cup UNION {Range(site[f].imgs) : f \in DOMAIN site}

\* C11: two different absolute asset URLs never get the same asset
\* filename, and every img rewritten to an asset refers to a file whose
\* bytes were downloaded from the img's own URL.
C11_AssetNamesInjective ==
    /\ \A i, j \in 1..Len(dlLog) :
          dlLog[i] # dlLog[j] =>
              assetFilename(dlLog[i]) # assetFilename(dlLog[j])
    /\ \A img \in AllImgs :
          (img.abs # <<>> /\ img.src = AssetRef(assetFilename(img.abs)))
              => assets[assetFilename(img.abs)] = img.abs

\* The step is the failure of an image task / the persisting of the page
TaskFails == cur.failed \subseteq cur'.failed /\ cur'.failed # cur.failed
Persists == Len(persistLog') > Len(persistLog)

Skips == pc' = "loop" /\ ~Persists /\ (Navigates \/ pc = "images")

EndsPage == pc = "images" /\ pc' = "loop"

\* C14: the crawl loop terminates whatever the link graph and the failures,
\* stated in the form a finite run decides: no iteration of the loop ends
\* with the program's state (frontier, visited map, saved pages, assets) as
\* it was when the iteration began, so that no iteration can repeat forever.
C14_IterationMakesProgress ==
    [][EndsPage =>
        ~(/\ queue' = cur.before.queue
          /\ assets' = cur.before.assets
          /\ visited' = visited
          /\ site' = site)]_vars

\* The text u occurs literally in the text t
Occurs(u, t) ==
    \E i \in 1..(Len(t) - Len(u) + 1) : SubSeq(t, i, i + Len(u) - 1) = u

\* Exact-string substitution: every literal occurrence of u in t replaced
RECURSIVE LitReplaceAll(_, _, _, _)
LitReplaceAll(t, i, u, rep) ==
    IF i > Len(t) THEN <<>>
    ELSE IF i + Len(u) - 1 <= Len(t) /\ SubSeq(t, i, i + Len(u) - 1) = u
         THEN rep \o LitReplaceAll(t, i + Len(u), u, rep)
         ELSE <<t[i]>> \o LitReplaceAll(t, i + 1, u, rep)

\* ... for every entry of map in turn
RECURSIVE LitFix(_, _, _)
LitFix(t, map, k) ==
    IF k > Len(map) THEN t
    ELSE LitFix(LitReplaceAll(t, 1, map[k].url, map[k].filename), map, k + 1)

\* The texts of a saved page, in a fixed order
TextsOf(m) ==
    [i \in 1..Len(m.anchors) |-> m.anchors[i].href]
    \o [i \in 1..Len(m.imgs) |-> m.imgs[i].src]
    \o m.meta

\* The step is the fix pass
FixPassRuns == pc = "loop" /\ pc' = "done"

\* No two entries of the visited map have the same filename
DistinctFilenames ==
    \A i, j \in 1..Len(visited) :
        i # j => visited[i].filename # visited[j].filename

\* C15: the fix pass is exact-string substitution: it changes every text of
\* every saved page as the literal replacement of the visited URLs does, and
\* afterwards no saved text holds a literal occurrence of a visited URL
\* (stated for the runs in which no two pages share a filename).
C15_ExactSubstitution ==
    [][(FixPassRuns /\ DistinctFilenames) =>
        \A f \in DOMAIN site :
            \A i \in 1..Len(TextsOf(site[f])) :
                /\ TextsOf(site'[f])[i] = LitFix(TextsOf(site[f])[i], visited, 1)
                /\ \A k \in 1..Len(visited) :
                      ~Occurs(visited[k].url, TextsOf(site'[f])[i])]_vars

\* The entries of the visited map in every order
VisitedOrders ==
    {[i \in 1..Len(visited) |-> visited[p[i]]] :
        p \in Permutations(1..Len(visited))}

\* C16: the result of the fix pass does not depend on the order in which
\* the visited entries' substitutions are applied (stated for the runs in
\* which no two pages share a filename).
C16_OrderIndependent ==
    [][(FixPassRuns /\ DistinctFilenames) =>
        \A subs \in VisitedOrders :
            FixFilesBy(site, visited, subs, 1) = site']_vars

\* The elements of a log in the order of their first occurrence
RECURSIVE FirstOccurrences(_, _)
FirstOccurrences(log, seen) ==
    IF log = <<>> THEN seen
    ELSE FirstOccurrences(Tail(log),
            IF InSeq(seen, Head(log)) THEN seen ELSE Append(seen, Head(log)))

IsPrefix(a, b) == Len(a) <= Len(b) /\ SubSeq(b, 1, Len(a)) = a

\* C17: pages are attempted in the order in which their URLs were first put
\* on the frontier, starting with the seed, and a navigation starts only
\* when no page is in progress.
C17_FifoOrder ==
    /\ [](IsPrefix(FirstOccurrences(navLog, <<>>),
                    FirstOccurrences(enqLog, <<>>)))
    /\ [](navLog # <<>> => navLog[1] = normalizeUrl(START_URL))
    /\ [][Navigates => (pc = "loop" /\ cur = NoPage /\ pending = {})]_vars

\* C17 witness: three different URLs have been attempted, a page is in
\* progress, and a URL put on the frontier later still waits
C17_Witness ==
    /\ pc = "images"
    /\ Len(FirstOccurrences(navLog, <<>>)) = 3
    /\ Len(FirstOccurrences(enqLog, <<>>)) > 3

\* C18: an entry of the visited map is created only by the step that writes
\* the page's file, as the last entry, with the page's URL, title and
\* filename; and no step, the fix pass included, changes or removes an
\* entry.
C18_VisitedAppendOnly ==
    /\ [][\A k \in 1..Len(visited) :
            Len(visited') >= k /\ visited'[k] = visited[k]]_vars
    /\ [][visited' # visited =>
            /\ Persists
            /\ visited' = Append(visited, [url      |-> cur.url,
                                           title    |-> cur.title,
                                           filename |-> cur.filename])
            /\ cur.filename \in DOMAIN site'
            /\ site'[cur.filename].anchors = cur.anchors]_vars
    /\ [](\A k \in 1..Len(visited) : visited[k].filename \in DOMAIN site)

\* C18 witness: the fix pass has run over two entries, and the URL of one
\* of them had been put on the frontier a second time
C18_Witness ==
    /\ pc = "done"
    /\ Len(visited) = 2
    /\ \E k \in 1..Len(visited) : Count(enqLog, visited[k].url) >= 2

\* The reference ref, on a page of URL base, resolves to a URL that is out
\* of scope: another host, or no page id in the path
OutOfScopeRef(ref, base) ==
    /\ ref # <<>>
    /\ CanResolve(ref)
    /\ ~(/\ HostOf(ResolveUrl(ref, base)) = host
          /\ isNotionPage(ResolveUrl(ref, base)))

SavedAnchors == UNION {Range(site[f].anchors) : f \in DOMAIN site}

\* The URLs of a log or map are pairwise different up to their fragment,
\* and none carries a fragment
OneKeyPerPage(urls) ==
    /\ \A i \in 1..Len(urls) : ~InSeq(urls[i], "#")
    /\ \A i, j \in 1..Len(urls) :
          i # j => DropHash(urls[i]) # DropHash(urls[j])

\* C20: URLs that differ only by their fragment are one key: a link is
\* recorded under its URL without the fragment; the frontier, the visited
\* map and the persisted pages never hold two URLs that are equal up to the
\* fragment, nor a URL with a fragment.
C20_FragmentOneKey ==
    /\ [](OneKeyPerPage(queue))
    /\ [](OneKeyPerPage([k \in 1..Len(visited) |-> visited[k].url]))
    /\ [](OneKeyPerPage(persistLog))
    /\ [](\A a \in Range(cur.anchors) :
            a.nh # <<>> => a.nh = DropHash(ResolveUrl(a.orig, cur.url)))

\* C20 witness: the saved pages hold a link with a fragment and a link to
\* the same URL without it; the URL was persisted once and has one entry
C20_Witness ==
    \E a, b \in SavedAnchors :
        /\ InSeq(a.orig, "#")
        /\ b.orig = DropHash(a.orig)
        /\ a.nh = b.nh
        /\ Count(persistLog, a.nh) = 1
        /\ Cardinality({k \in 1..Len(visited) : visited[k].url = a.nh}) = 1

=============================================================================
